---- MODULE Spec2Model ----
(***************************************************************************)
(* Bias detection service (backend/app/main.py, backend/app/server.py).   *)
(*                                                                         *)
(* Strings are sequences of one-character strings.  Python's floats are    *)
(* IEEE 754 doubles, computed digit by digit with the rounding of the      *)
(* hardware.                                                               *)
(***************************************************************************)
EXTENDS Integers, Sequences, FiniteSets, TLC

VARIABLES
    mtext,      \* a call of find_phrase_matches: its text argument
    mphrases,   \* ... its phrases argument
    mout,       \* ... its outcome, NotCalled before the call
    stext,      \* a call of calculate_bias_scores and determine_overall_bias: the text
    skeywords,  \* ... the BIAS_KEYWORDS it reads
    sout,       \* ... its outcome, NotCalled before the call
    rscores,    \* a call of determine_overall_bias: its scores argument
    rout,       \* ... its result, NotCalled before the call
    file,       \* data/bias_keywords.json as the process finds it
    proc,       \* the process: "starting", "serving" or "failed"
    impl,       \* which server runs: "main" (main.py) or "server" (server.py)
    BIAS_KEYWORDS,      \* main.py:29 and server.py:15, the module-level keyword store
    PROCESSED_KEYWORDS, \* server.py:18, the lowercased sets
    reqs        \* the HTTP requests, each with its handler's locals and response

callVars == <<mtext, mphrases, mout, stext, skeywords, sout, rscores, rout>>
procVars == <<file, proc, impl, BIAS_KEYWORDS, PROCESSED_KEYWORDS, reqs>>
vars == <<mtext, mphrases, mout, stext, skeywords, sout, rscores, rout,
          file, proc, impl, BIAS_KEYWORDS, PROCESSED_KEYWORDS, reqs>>

NotCalled == [exc |-> "not_called"]

----------------------------------------------------------------------------
(* Python str primitives                                                   *)

\* str.isspace characters of the model's alphabet
WS == {" ", "\t"}

\* str.lower, one character
LowerChar(c) ==
    CASE c = "T" -> "t"
      [] c = "W" -> "w"
      [] c = "G" -> "g"
      [] OTHER -> c

\* str.lower
Lower(s) == IF s = <<>> THEN <<>> ELSE [i \in 1..Len(s) |-> LowerChar(s[i])]

\* str.split() with no argument: runs of whitespace separate, no empty tokens
RECURSIVE SplitScan(_, _, _, _)
SplitScan(s, i, cur, acc) ==
    IF i > Len(s)
    THEN IF cur = <<>> THEN acc ELSE Append(acc, cur)
    ELSE IF s[i] \in WS
         THEN SplitScan(s, i + 1, <<>>, IF cur = <<>> THEN acc ELSE Append(acc, cur))
         ELSE SplitScan(s, i + 1, Append(cur, s[i]), acc)

Split(s) == SplitScan(s, 1, <<>>, <<>>)

\* str.strip() with no argument
RECURSIVE LStripWS(_)
LStripWS(s) == IF s # <<>> /\ Head(s) \in WS THEN LStripWS(Tail(s)) ELSE s

RECURSIVE RStrip(_, _)
\* str.rstrip(chars): drops trailing characters while they belong to chars
RStrip(s, chars) ==
    IF s # <<>> /\ s[Len(s)] \in chars
    THEN RStrip(SubSeq(s, 1, Len(s) - 1), chars)
    ELSE s

Strip(s) == RStrip(LStripWS(s), WS)

\* Python's "sub in s" on strings
Contains(sub, s) ==
    \E i \in 0..(Len(s) - Len(sub)) : SubSeq(s, i + 1, i + Len(sub)) = sub

\* range of a sequence
Range(q) == {q[i] : i \in 1..Len(q)}

----------------------------------------------------------------------------
(* Natural numbers of any size: the digits in base 2^14, lowest first,     *)
(* without a leading zero digit; <<>> is 0                                 *)

Base == 2^14

RECURSIVE BitLenSmall(_)
BitLenSmall(n) == IF n = 0 THEN 0 ELSE 1 + BitLenSmall(n \div 2)

\* the binary digits of one digit of a big natural
DigitBits == BitLenSmall(Base) - 1

RECURSIVE BNorm(_)
BNorm(x) == IF x # <<>> /\ x[Len(x)] = 0 THEN BNorm(SubSeq(x, 1, Len(x) - 1)) ELSE x

RECURSIVE BFromInt(_)
BFromInt(n) == IF n = 0 THEN <<>> ELSE <<n % Base>> \o BFromInt(n \div Base)

Digit(x, i) == IF i <= Len(x) THEN x[i] ELSE 0

RECURSIVE BCmpFrom(_, _, _)
BCmpFrom(a, b, i) ==
    IF i = 0 THEN 0
    ELSE IF a[i] > b[i] THEN 1
    ELSE IF a[i] < b[i] THEN -1
    ELSE BCmpFrom(a, b, i - 1)

\* 1, 0 or -1 as a is above, equal to or below b
BCmp(a, b) ==
    IF Len(a) > Len(b) THEN 1
    ELSE IF Len(a) < Len(b) THEN -1
    ELSE BCmpFrom(a, b, Len(a))

RECURSIVE BAddFrom(_, _, _, _)
BAddFrom(a, b, i, carry) ==
    IF i > Len(a) /\ i > Len(b)
    THEN IF carry = 0 THEN <<>> ELSE <<carry>>
    ELSE LET Emit(s) == <<s % Base>> \o BAddFrom(a, b, i + 1, s \div Base)
         IN  Emit(Digit(a, i) + Digit(b, i) + carry)

BAdd(a, b) == BAddFrom(a, b, 1, 0)

RECURSIVE BSubFrom(_, _, _, _)
BSubFrom(a, b, i, borrow) ==
    IF i > Len(a) THEN <<>>
    ELSE LET Emit(s) == IF s < 0
                        THEN <<s + Base>> \o BSubFrom(a, b, i + 1, 1)
                        ELSE <<s>> \o BSubFrom(a, b, i + 1, 0)
         IN  Emit(a[i] - Digit(b, i) - borrow)

\* a - b for a >= b
BSub(a, b) == BNorm(BSubFrom(a, b, 1, 0))

RECURSIVE BMulSmallFrom(_, _, _, _)
BMulSmallFrom(a, k, i, carry) ==
    IF i > Len(a)
    THEN IF carry = 0 THEN <<>> ELSE <<carry>>
    ELSE LET Emit(s) == <<s % Base>> \o BMulSmallFrom(a, k, i + 1, s \div Base)
         IN  Emit(a[i] * k + carry)

\* a * k for 0 <= k <= Base
BMulSmall(a, k) == IF k = 0 THEN <<>> ELSE BMulSmallFrom(a, k, 1, 0)

BShiftDigits(a, n) == IF a = <<>> THEN <<>> ELSE [i \in 1..n |-> 0] \o a

RECURSIVE BMulFrom(_, _, _)
BMulFrom(a, b, i) ==
    IF i > Len(b) THEN <<>>
    ELSE BAdd(BShiftDigits(BMulSmall(a, b[i]), i - 1), BMulFrom(a, b, i + 1))

BMul(a, b) == BMulFrom(a, b, 1)

\* a * 2^bits
BShl(a, bits) ==
    LET Shift(w) == BShiftDigits(BMulSmall(a, 2^(bits % w)), bits \div w)
    IN  Shift(DigitBits)

RECURSIVE BDivSmallFrom(_, _, _, _, _)
BDivSmallFrom(a, k, i, r, q) ==
    IF i = 0 THEN [q |-> BNorm(q), r |-> BFromInt(r)]
    ELSE LET Emit(n) == BDivSmallFrom(a, k, i - 1, n % k, <<n \div k>> \o q)
         IN  Emit(r * Base + a[i])

\* quotient and remainder of a by k, 0 < k <= Base
BDivSmall(a, k) == BDivSmallFrom(a, k, Len(a), 0, <<>>)

\* a \div 2^bits
BShr(a, bits) ==
    LET Shift(w) ==
            IF bits \div w >= Len(a) THEN <<>>
            ELSE BDivSmall(SubSeq(a, bits \div w + 1, Len(a)), 2^(bits % w)).q
    IN  Shift(DigitBits)

\* the number of binary digits of a
BBitLen(a) == IF a = <<>> THEN 0 ELSE DigitBits * (Len(a) - 1) + BitLenSmall(a[Len(a)])

RECURSIVE QuotientDigit(_, _, _)
\* the largest q <= guess with d * q <= r
QuotientDigit(r, d, guess) ==
    IF BCmp(BMulSmall(d, guess), r) > 0 THEN QuotientDigit(r, d, guess - 1) ELSE guess

RECURSIVE BDivLongFrom(_, _, _, _, _)
\* long division, one digit of a at a time from digit i down, r being what
\* is left of the digits above; the highest digit of d is at least Base / 2,
\* so the guess is at most 2 too large
BDivLongFrom(a, d, i, r, q) ==
    IF i = 0 THEN [q |-> BNorm(q), r |-> r]
    ELSE LET Guess(top, most) == IF top \div d[Len(d)] > most THEN most
                                 ELSE top \div d[Len(d)]
             Top(cur, base) == Digit(cur, Len(d) + 1) * base + Digit(cur, Len(d))
             Take(cur, digit) ==
                 BDivLongFrom(a, d, i - 1, BSub(cur, BMulSmall(d, digit)), <<digit>> \o q)
             Divide(cur) ==
                 IF BCmp(cur, d) < 0
                 THEN BDivLongFrom(a, d, i - 1, cur, <<0>> \o q)
                 ELSE Take(cur, QuotientDigit(cur, d, Guess(Top(cur, Base), Base - 1)))
         IN  Divide(BNorm(<<a[i]>> \o r))

\* a \div d for d of several digits with its highest digit at least Base / 2:
\* the top Len(d) - 1 digits of a are below d and start as the remainder
BDivLong(a, d) ==
    IF Len(a) < Len(d) THEN [q |-> <<>>, r |-> a]
    ELSE BDivLongFrom(a, d, Len(a) - Len(d) + 1,
                      SubSeq(a, Len(a) - Len(d) + 2, Len(a)), <<>>)

\* quotient of a by d > 0, and whether a remainder is left
BDivMod(a, d) ==
    LET Result(res) == [q |-> res.q, exact |-> res.r = <<>>]
        Scaled(sh) == BDivLong(BShl(a, sh), BShl(d, sh))
    IN  Result(IF Len(d) = 1 THEN BDivSmall(a, d[1])
               ELSE Scaled(DigitBits - BitLenSmall(d[Len(d)])))

----------------------------------------------------------------------------
(* Python floats: IEEE 754 binary64, round to nearest, ties to even.       *)
(* A float is zero or m * 2^e with m odd and below 2^53; the scores are    *)
(* never negative, subnormal, infinite or NaN.                             *)

MantissaBits == 53

FZero == [m |-> <<>>, e |-> 0]

RECURSIVE TrailingZeros(_)
TrailingZeros(n) == IF n % 2 = 1 THEN 0 ELSE 1 + TrailingZeros(n \div 2)

RECURSIVE FCanon(_, _)
\* the float m * 2^e for m of at most 53 bits
FCanon(m, e) ==
    LET Odd(zeros) == [m |-> BShr(m, zeros), e |-> e + zeros] IN
    IF m = <<>> THEN FZero
    ELSE IF m[1] = 0 THEN FCanon(Tail(m), e + DigitBits)
    ELSE Odd(TrailingZeros(m[1]))

\* the float nearest to n * 2^e, ties to the even mantissa
FRound(n, e) ==
    LET Up(q, rest) == rest > 0 \/ (rest = 0 /\ q[1] % 2 = 1)
        Nearest(q, sh) ==
            IF Up(q, BCmp(BSub(n, BShl(q, sh)), BShl(<<1>>, sh - 1)))
            THEN [m |-> BAdd(q, <<1>>), e |-> e + sh]
            ELSE [m |-> q, e |-> e + sh]
        Cut(sh) == IF sh <= 0 THEN [m |-> n, e |-> e] ELSE Nearest(BShr(n, sh), sh)
        Canon(r) == FCanon(r.m, r.e)
    IN  Canon(Cut(BBitLen(n) - MantissaBits))

\* float(n) for an int n >= 0: an int below 2^53 is a float
FromInt(n) == FCanon(BFromInt(n), 0)

\* a + b
FAdd(a, b) ==
    IF a.m = <<>> THEN b
    ELSE IF b.m = <<>> THEN a
    ELSE LET e == IF a.e < b.e THEN a.e ELSE b.e
         IN  FRound(BAdd(BShl(a.m, a.e - e), BShl(b.m, b.e - e)), e)

\* a * b
FMul(a, b) ==
    IF a.m = <<>> \/ b.m = <<>> THEN FZero
    ELSE FRound(BMul(a.m, b.m), a.e + b.e)

\* a / b for b # 0: the quotient to 55 or 56 bits, with one more bit that
\* tells whether a remainder is left
FDiv(a, b) ==
    LET Sticky(res) == BAdd(BShl(res.q, 1), IF res.exact THEN <<>> ELSE <<1>>)
        Quotient(s) == FRound(Sticky(BDivMod(BShl(a.m, s), b.m)), a.e - b.e - s - 1)
    IN  IF a.m = <<>> THEN FZero
        ELSE Quotient(MantissaBits + 2 + BBitLen(b.m) - BBitLen(a.m))

\* 1, 0 or -1 as ka * a is above, equal to or below kb * b, exactly
FCmpScaled(ka, a, kb, b) ==
    IF a.m = <<>> THEN (IF b.m = <<>> THEN 0 ELSE -1)
    ELSE IF b.m = <<>> THEN 1
    ELSE LET e == IF a.e < b.e THEN a.e ELSE b.e
         IN  BCmp(BMulSmall(BShl(a.m, a.e - e), ka), BMulSmall(BShl(b.m, b.e - e), kb))

FGe(a, b) == FCmpScaled(1, a, 1, b) >= 0
FGt(a, b) == FCmpScaled(1, a, 1, b) > 0

\* a float literal p/q: the float nearest to it
FLiteral(p, q) == FDiv(FromInt(p), FromInt(q))

----------------------------------------------------------------------------
(* find_phrase_matches, main.py                                            *)

\* main.py:114, the 60% threshold as the fraction 3/5
MatchThreshold == <<3, 5>>

\* main.py:68-70: substrings of at least 3 characters of the text's words
TextSubstrings(text_words) ==
    UNION { UNION { {SubSeq(w, i, j) : j \in (i + 2)..Len(w)} : i \in 1..Len(w) } :
            w \in Range(text_words) }

\* main.py:74: exact word match
WordExact(phrase_word, text_words) == phrase_word \in Range(text_words)

\* the containment checks without main.py:87
WordContainedWithoutShared(phrase_word, text_words) ==
    \E k \in 1..Len(text_words) :
        \/ Contains(phrase_word, text_words[k])
        \/ Contains(text_words[k], phrase_word)
        \/ phrase_word \in TextSubstrings(text_words)

\* main.py:82-91: containment either way, or a shared substring
WordContained(phrase_word, text_words) ==
    \E k \in 1..Len(text_words) :
        \/ Contains(phrase_word, text_words[k])
        \/ Contains(text_words[k], phrase_word)
        \/ phrase_word \in TextSubstrings(text_words)
        \/ \E sub \in TextSubstrings(text_words) :
              Len(sub) >= 3 /\ Contains(sub, phrase_word)

\* main.py:97-104
WordVariations(phrase_word) ==
    << RStrip(phrase_word, {"s"}),
       RStrip(phrase_word, {"e", "d"}),
       RStrip(phrase_word, {"i", "n", "g"}),
       phrase_word \o <<"s">>,
       phrase_word \o <<"e", "d">>,
       phrase_word \o <<"i", "n", "g">> >>

\* the test of main.py:107 made against the text's words by containment
WordVariedInsideWord(phrase_word, text_words) ==
    \E v \in Range(WordVariations(phrase_word)) :
        \E k \in 1..Len(text_words) : Contains(v, text_words[k])

\* main.py:106-110
WordVaried(phrase_word, text_words) ==
    \E v \in Range(WordVariations(phrase_word)) :
        v \in Range(text_words) \/ v \in TextSubstrings(text_words)

\* main.py:72-110: does this phrase word add one to matched_words
WordCounted(phrase_word, text_words) ==
    \/ WordExact(phrase_word, text_words)
    \/ WordContained(phrase_word, text_words)
    \/ WordVaried(phrase_word, text_words)

\* main.py:63-110: matched_words after the loop over phrase_words
MatchedWords(phrase_words, text_words) ==
    Cardinality({i \in 1..Len(phrase_words) : WordCounted(phrase_words[i], text_words)})

\* main.py:113-114 for a phrase with at least one word.  The quotient of two
\* small ints rounds to a float at or above the float 0.6 exactly when the
\* quotient itself is at least 3/5, so the test is made on the ints.
RatioReached(phrase_words, text_words) ==
    MatchedWords(phrase_words, text_words) * MatchThreshold[2]
        >= MatchThreshold[1] * Len(phrase_words)

\* main.py:52-117, one iteration: "exact", "partial", "no" or "ZeroDivisionError"
PhraseVerdict(ltext, text_words, phrase) ==
    IF Contains(phrase, ltext) THEN "exact"
    ELSE IF Split(phrase) = <<>> THEN "ZeroDivisionError"
    ELSE IF RatioReached(Split(phrase), text_words) THEN "partial"
    ELSE "no"

RECURSIVE MatchLoop(_, _, _, _, _)
MatchLoop(ltext, text_words, phrases, i, matches) ==
    IF i > Len(phrases) THEN [exc |-> "none", matches |-> matches]
    ELSE LET phrase == Lower(phrases[i])
             v == PhraseVerdict(ltext, text_words, phrase)
         IN  IF v = "ZeroDivisionError" THEN [exc |-> "ZeroDivisionError"]
             ELSE MatchLoop(ltext, text_words, phrases, i + 1,
                            IF v \in {"exact", "partial"}
                            THEN Append(matches, phrase) ELSE matches)

\* main.py:46-119
FindPhraseMatches(text, phrases) ==
    MatchLoop(Lower(text), Split(Lower(text)), phrases, 1, <<>>)

----------------------------------------------------------------------------
(* calculate_bias_scores, main.py                                          *)

\* main.py:124-130, in the dict's order
Categories == <<"left_wing", "right_wing", "extreme_left", "extreme_right", "neutral">>

\* main.py:124-130, a dict of the five scores: each value is computed once,
\* when the dict is written
ScoreDict(score) ==
    [left_wing     |-> score["left_wing"],
     right_wing    |-> score["right_wing"],
     extreme_left  |-> score["extreme_left"],
     extreme_right |-> score["extreme_right"],
     neutral       |-> score["neutral"]]

\* main.py:138, 145
ExtremeWeight == FromInt(2)
\* main.py:153, 161
WingWeight == FromInt(1)
\* a neutral match weighted like a wing match
NeutralWeightAsWing == FromInt(1)

\* main.py:168
NeutralWeight == FLiteral(3, 4)

\* main.py:135-165: the keyword lists in the order they are matched, each with
\* the score it feeds and its weight.  sub = "" : the list is the top-level value.
ScoringSteps ==
    << [top |-> "extreme_right", sub |-> "keywords", cat |-> "extreme_right", weight |-> ExtremeWeight],
       [top |-> "extreme_left",  sub |-> "keywords", cat |-> "extreme_left",  weight |-> ExtremeWeight],
       [top |-> "left_wing",     sub |-> "economic", cat |-> "left_wing",     weight |-> WingWeight],
       [top |-> "left_wing",     sub |-> "social",   cat |-> "left_wing",     weight |-> WingWeight],
       [top |-> "right_wing",    sub |-> "economic", cat |-> "right_wing",    weight |-> WingWeight],
       [top |-> "right_wing",    sub |-> "social",   cat |-> "right_wing",    weight |-> WingWeight],
       [top |-> "neutral_terms", sub |-> "",         cat |-> "neutral",       weight |-> NeutralWeight] >>

\* BIAS_KEYWORDS[top] or BIAS_KEYWORDS[top][sub]: the list, or a KeyError
HasList(keywords, step) ==
    /\ step.top \in DOMAIN keywords
    /\ step.sub # "" => step.sub \in DOMAIN keywords[step.top]

KeywordList(keywords, step) ==
    IF step.sub = "" THEN keywords[step.top] ELSE keywords[step.top][step.sub]

\* detected_phrases[cat].extend(matches) on the defaultdict
Extend(detected, cat, matches) ==
    IF cat \in DOMAIN detected
    THEN [detected EXCEPT ![cat] = @ \o matches]
    ELSE detected @@ (cat :> matches)

RECURSIVE ScoreLoop(_, _, _, _, _)
\* main.py:133-169: the raw scores and detected phrases, or the exception raised
ScoreLoop(text, keywords, i, scores, detected) ==
    LET Scored(step, m) ==
            IF m.exc # "none" THEN [exc |-> m.exc]
            ELSE IF m.matches = <<>>
                 THEN ScoreLoop(text, keywords, i + 1, scores, detected)
                 ELSE ScoreLoop(text, keywords, i + 1,
                          [scores EXCEPT ![step.cat] =
                              FAdd(@, FMul(FromInt(Len(m.matches)), step.weight))],
                          Extend(detected, step.cat, m.matches))
        Matched(step) ==
            IF ~HasList(keywords, step) THEN [exc |-> "KeyError"]
            ELSE Scored(step, FindPhraseMatches(text, KeywordList(keywords, step)))
        Stepped(steps) ==
            IF i > Len(steps) THEN [exc |-> "none", scores |-> scores, detected |-> detected]
            ELSE Matched(steps[i])
    IN  Stepped(ScoringSteps)

RawScores(text, keywords) ==
    ScoreLoop(text, keywords, 1, ScoreDict([c \in Range(Categories) |-> FZero]), <<>>)

RECURSIVE SumFrom(_, _, _)
SumFrom(scores, i, acc) ==
    IF i > Len(Categories) THEN acc
    ELSE SumFrom(scores, i + 1, FAdd(acc, scores[Categories[i]]))

\* sum(scores.values()): from 0, one value after the other in the dict's order
SumScores(scores) == SumFrom(scores, 1, FZero)

\* scaling by the largest score instead of the sum
NormalizeByMax(scores) ==
    LET FMax(a, b) == IF FGt(a, b) THEN a ELSE b
        Scaled(top) ==
            IF FGt(top, FZero)
            THEN ScoreDict([c \in DOMAIN scores |-> FDiv(scores[c], top)])
            ELSE scores
    IN  Scaled(FMax(scores["left_wing"], FMax(scores["right_wing"],
               FMax(scores["extreme_left"], FMax(scores["extreme_right"], scores["neutral"])))))

\* main.py:174-178
Normalize(scores) ==
    LET Scaled(total_score) ==
            IF FGt(total_score, FZero)
            THEN ScoreDict([c \in DOMAIN scores |-> FDiv(scores[c], total_score)])
            ELSE scores
    IN  Scaled(SumScores(scores))

\* main.py:121-183
CalculateBiasScores(text, keywords) ==
    LET Normalized(raw) ==
            IF raw.exc # "none" THEN raw
            ELSE [exc |-> "none", scores |-> Normalize(raw.scores), detected |-> raw.detected]
    IN  Normalized(RawScores(text, keywords))

----------------------------------------------------------------------------
(* determine_overall_bias, main.py                                         *)

\* main.py:193
DominanceFactor == FLiteral(17, 20)

\* main.py:197
ExtremeCategories == <<"extreme_left", "extreme_right">>

RECURSIVE MaxOf(_, _, _)
\* max(scores.values())
MaxOf(scores, i, best) ==
    IF i > Len(Categories) THEN best
    ELSE MaxOf(scores, i + 1,
               IF FGt(scores[Categories[i]], best) THEN scores[Categories[i]] ELSE best)

MaxScore(scores) == MaxOf(scores, 2, scores[Categories[1]])

\* only the categories that reach the maximum itself
DominantAtMax(scores) ==
    LET AtLeast(threshold) ==
            LET IsDominant(c) == FGe(scores[c], threshold)
            IN  SelectSeq(Categories, IsDominant)
    IN  AtLeast(MaxScore(scores))

\* main.py:193-194
DominantCategories(scores) ==
    LET AtLeast(threshold) ==
            LET IsDominant(c) == FGe(scores[c], threshold)
            IN  SelectSeq(Categories, IsDominant)
    IN  AtLeast(FMul(MaxScore(scores), DominanceFactor))

\* main.py:202-204: max() keeps the first of equal scores
PreferredExtreme(scores, dominant) ==
    LET IsDom(c) == c \in Range(dominant)
        First(extreme) ==
            IF Len(extreme) = 2 /\ FGt(scores[extreme[2]], scores[extreme[1]])
            THEN extreme[2] ELSE extreme[1]
    IN  First(SelectSeq(ExtremeCategories, IsDom))

\* the maximum score reported as the confidence of an extreme label
DetermineWithMaxConfidence(scores) ==
    LET Resolved(max_score, dominant) ==
            IF max_score = FZero THEN <<"neutral", FZero>>
            ELSE IF \E c \in Range(ExtremeCategories) : c \in Range(dominant)
            THEN <<PreferredExtreme(scores, dominant), max_score>>
            ELSE IF Len(dominant) > 1 THEN <<"mixed", max_score>>
            ELSE <<dominant[1], max_score>>
    IN  Resolved(MaxScore(scores), DominantCategories(scores))

\* the all-zero test left out
DetermineWithoutZeroTest(scores) ==
    LET Scored(dominant_category) == <<dominant_category, scores[dominant_category]>>
        Resolved(max_score, dominant) ==
            IF \E c \in Range(ExtremeCategories) : c \in Range(dominant)
            THEN Scored(PreferredExtreme(scores, dominant))
            ELSE IF Len(dominant) > 1 THEN <<"mixed", max_score>>
            ELSE <<dominant[1], max_score>>
    IN  Resolved(MaxScore(scores), DominantCategories(scores))

\* main.py:185-213: <<label, confidence>>
DetermineOverallBias(scores) ==
    LET Scored(dominant_category) == <<dominant_category, scores[dominant_category]>>
        Resolved(max_score, dominant) ==
            IF max_score = FZero THEN <<"neutral", FZero>>
            ELSE IF \E c \in Range(ExtremeCategories) : c \in Range(dominant)
            THEN Scored(PreferredExtreme(scores, dominant))
            ELSE IF Len(dominant) > 1 THEN <<"mixed", max_score>>
            ELSE <<dominant[1], max_score>>
    IN  Resolved(MaxScore(scores), DominantCategories(scores))

----------------------------------------------------------------------------
(* server.py: its own matcher, scorer and resolver                         *)

\* server.py:19-29, one set(kw.lower() for kw in ...): the distinct lowercased
\* phrases, in any of the orders the set may iterate in
SetOrders(list) ==
    LET S == {Lower(list[i]) : i \in 1..Len(list)}
    IN  {q \in [1..Cardinality(S) -> S] : Range(q) = S}

\* server.py:47-61: a phrase that is not a substring of the text
ServerWordsMatch(phrase_lower, input_words) ==
    LET phrase_words == Range(Split(phrase_lower)) IN
    IF Cardinality(phrase_words) = 1
    THEN \E input_word \in input_words :
            \E phrase_word \in phrase_words : Contains(phrase_word, input_word)
    ELSE LET common_words == input_words \cap phrase_words IN
         /\ Cardinality(common_words) >= 1
         /\ 10 * Cardinality(common_words) >= 3 * Cardinality(phrase_words)

\* server.py:32-63; phrases is the set in its iteration order
ServerFindPhraseMatches(text, phrases) ==
    LET processed_text == Lower(text)
        input_words == Range(Split(processed_text))
        Matched(phrase) ==
            \/ Contains(Lower(phrase), processed_text)
            \/ ServerWordsMatch(Lower(phrase), input_words)
    IN  SelectSeq(phrases, Matched)

\* server.py:90
ServerWingWeight == FLiteral(6, 5)
\* server.py:96
ServerNeutralWeight == FLiteral(3, 10)
\* server.py:102
ServerBaseline == FLiteral(1, 2)

\* server.py:77-97: the raw score of a category
ServerRawScore(text, processed, c) ==
    LET Added(matches, weight) ==
            IF matches = <<>> THEN FZero ELSE FMul(FromInt(Len(matches)), weight)
        Weighed(phrases, weight) == Added(ServerFindPhraseMatches(text, phrases), weight)
    IN  CASE c \in {"extreme_right", "extreme_left"} -> Weighed(processed[c], ExtremeWeight)
          [] c \in {"left_wing", "right_wing"} ->
                FAdd(Weighed(processed[c].economic, ServerWingWeight),
                     Weighed(processed[c].social, ServerWingWeight))
          [] c = "neutral" -> Weighed(processed.neutral, ServerNeutralWeight)

\* server.py:77-97: detected_phrases
ServerDetected(text, processed) ==
    LET m(c) == CASE c \in {"extreme_right", "extreme_left"} ->
                        ServerFindPhraseMatches(text, processed[c])
                  [] c \in {"left_wing", "right_wing"} ->
                        ServerFindPhraseMatches(text, processed[c].economic)
                        \o ServerFindPhraseMatches(text, processed[c].social)
                  [] c = "neutral" -> ServerFindPhraseMatches(text, processed.neutral)
    IN  [c \in {d \in Range(Categories) : m(d) # <<>>} |-> m(c)]

\* server.py:65-110
ServerCalculateBiasScores(text, processed) ==
    LET Boosted(raw) ==
            ScoreDict([c \in Range(Categories) |->
                IF FGt(raw[c], FZero) THEN FAdd(raw[c], ServerBaseline) ELSE raw[c]])
    IN  [scores |-> Normalize(Boosted(ScoreDict(
                        [c \in Range(Categories) |-> ServerRawScore(text, processed, c)]))),
         detected |-> ServerDetected(text, processed)]

\* server.py:120
ServerDominanceFactor == FLiteral(1, 2)

RECURSIVE FirstMax(_, _, _, _)
\* max(d.items(), key=score)[0] over the categories of keys, in dict order
FirstMax(scores, keys, i, best) ==
    IF i > Len(keys) THEN best
    ELSE FirstMax(scores, keys, i + 1,
                  IF best = "" \/ FGt(scores[keys[i]], scores[best]) THEN keys[i] ELSE best)

\* server.py:112-149: <<label, confidence>>
ServerDetermineOverallBias(scores) ==
    LET Positive(c) == FGt(scores[c], FZero)
        PositiveExtreme(c) == c \in Range(ExtremeCategories) /\ Positive(c)
        PositiveWing(c) == c \in {"left_wing", "right_wing"} /\ Positive(c)
        PositiveNonNeutral(c) == c # "neutral" /\ Positive(c)
        Dominant(threshold) ==
            LET IsDominant(c) == FGe(scores[c], threshold)
            IN  Range(SelectSeq(Categories, IsDominant))
        Resolved(max_score, dominant, extreme_scores, non_neutral, non_neutral_scores) ==
            IF max_score = FZero THEN <<"neutral", FZero>>
            ELSE IF "extreme_left" \in dominant /\ "extreme_right" \in dominant
            THEN <<"mixed extreme", max_score>>
            ELSE IF (\E c \in Range(ExtremeCategories) : c \in dominant)
                    /\ extreme_scores # <<>>
            THEN <<FirstMax(scores, extreme_scores, 1, ""), max_score>>
            ELSE IF "neutral" \in dominant /\ non_neutral # <<>>
            THEN <<FirstMax(scores, non_neutral, 1, ""), max_score>>
            ELSE IF non_neutral_scores # <<>>
            THEN <<FirstMax(scores, non_neutral_scores, 1, ""), max_score>>
            ELSE <<FirstMax(scores, Categories, 1, ""), max_score>>
        WithMax(max_score) ==
            Resolved(max_score, Dominant(FMul(max_score, ServerDominanceFactor)),
                     SelectSeq(ExtremeCategories, PositiveExtreme),
                     SelectSeq(Categories, PositiveWing),
                     SelectSeq(Categories, PositiveNonNeutral))
    IN  WithMax(MaxScore(scores))

----------------------------------------------------------------------------
(* Inputs of the model: words, texts and phrases                           *)

MaxTextWords == 2
MaxPhraseWords == 3

wTax    == <<"T", "a", "x">>
wtax    == <<"t", "a", "x">>
wtaxes  == <<"t", "a", "x", "e", "s">>
wsyntax == <<"s", "y", "n", "t", "a", "x">>
wwe     == <<"w", "e">>
wWe     == <<"W", "e">>
wgun    == <<"g", "u", "n">>
wGun    == <<"G", "u", "n">>
wguns   == <<"g", "u", "n", "s">>
wed     == <<"e", "d">>
wwall   == <<"w", "a", "l", "l">>
wwal    == <<"w", "a", "l">>
wriot   == <<"r", "i", "o", "t">>
wcare   == <<"c", "a", "r", "e">>
wdata   == <<"d", "a", "t", "a">>

RECURSIVE JoinWords(_, _)
\* sep.join(words)
JoinWords(words, sep) ==
    IF words = <<>> THEN <<>>
    ELSE IF Len(words) = 1 THEN words[1]
    ELSE words[1] \o sep \o JoinWords(Tail(words), sep)

SeqsOf(S, lo, hi) == UNION {[1..k -> S] : k \in lo..hi}

\* words a text is made of, and words a phrase is made of
TextVocab == {wTax, wtaxes, wwe, wgun}
PhraseVocab == {wtax, wsyntax, wWe, wguns, wed}

\* phrases without a word
ZeroWordPhrases == {<<>>, <<" ">>, <<"\t">>}

MatcherTexts ==
    {JoinWords(ws, <<" ">>) : ws \in SeqsOf(TextVocab, 0, MaxTextWords)}
    \cup {JoinWords(<<wTax, w>>, <<"\t">>) : w \in TextVocab}
    \cup {<<" ">>}

MatcherPhrases ==
    {JoinWords(ws, <<" ">>) : ws \in SeqsOf(PhraseVocab, 1, MaxPhraseWords)}
    \cup ZeroWordPhrases

\* the phrases of a candidate list of two
PairedPhrases ==
    PhraseVocab \cup ZeroWordPhrases
    \cup {JoinWords(<<wWe, wWe>>, <<" ">>), JoinWords(<<wtax, wsyntax>>, <<" ">>)}
OtherPhrases == {wtax, <<"\t">>}

MatcherPhraseLists ==
    {<<>>} \cup {<<p>> : p \in MatcherPhrases}
    \cup {<<p, q>> : p \in PairedPhrases, q \in OtherPhrases}
    \cup {<<q, p>> : p \in PairedPhrases, q \in OtherPhrases}

\* the data file's content once parsed: BIAS_KEYWORDS
KeywordSet(er, el, lwe, lws, rwe, rws, nt) ==
    [extreme_right |-> [keywords |-> er],
     extreme_left  |-> [keywords |-> el],
     left_wing     |-> [economic |-> lwe, social |-> lws],
     right_wing    |-> [economic |-> rwe, social |-> rws],
     neutral_terms |-> nt]

\* a data file without the neutral_terms key
WithoutNeutral(er, el, lwe, lws, rwe, rws) ==
    [extreme_right |-> [keywords |-> er],
     extreme_left  |-> [keywords |-> el],
     left_wing     |-> [economic |-> lwe, social |-> lws],
     right_wing    |-> [economic |-> rwe, social |-> rws]]

ScorerVocab == {wwall, wriot, wTax, wgun, wdata}

ScorerTexts == {JoinWords(ws, <<" ">>) : ws \in SeqsOf(ScorerVocab, 0, MaxTextWords)}

ScorerKeywordSets ==
    {KeywordSet(er, el, lwe, lws, rwe, rws, nt) :
        er \in {<<>>, <<wwall, wwal>>}, el \in {<<>>, <<wriot>>},
        lwe \in {<<>>, <<wtax>>}, lws \in {<<>>, <<wTax>>},
        rwe \in {<<>>, <<wgun>>}, rws \in {<<>>, <<wGun>>},
        nt \in {<<>>, <<wdata>>, <<wdata, <<" ">>>>}}
    \cup {WithoutNeutral(<<wwall, wwal>>, <<wriot>>, lwe, <<>>, <<>>, <<wGun>>) :
            lwe \in {<<>>, <<wtax>>}}
    \cup {KeywordSet(<<wwall>>, <<wwall, wwal>>, <<wtax>>, <<>>, <<>>, <<>>, <<>>)}

\* score vectors: every score the float k / ScoreSteps, or one of the floats
\* 0.119, 0.14 and 0.85, which with 1.0 stand at the 0.85 boundary
ScoreSteps == 4

BoundaryScores == {FLiteral(119, 1000), FLiteral(7, 50), FLiteral(17, 20)}

ScoreValues == {FLiteral(k, ScoreSteps) : k \in 0..ScoreSteps} \cup BoundaryScores

ScoreVectors == [Range(Categories) -> ScoreValues]

\* the data file: absent, not JSON, or JSON holding a keyword set
DataFiles ==
    { [kind |-> "missing"], [kind |-> "invalid"],
      [kind |-> "json", value |->
          KeywordSet(<<wwall, wwal>>, <<wriot>>, <<wtax>>, <<wcare>>, <<wgun>>, <<wGun>>, <<wdata>>)],
      [kind |-> "json", value |->
          KeywordSet(<<wwall>>, <<>>, <<wtax>>, <<>>, <<>>, <<wGun>>, <<wdata, <<" ">>>>)],
      [kind |-> "json", value |->
          WithoutNeutral(<<wwall, wwal>>, <<wriot>>, <<wtax>>, <<>>, <<>>, <<wGun>>)] }

\* texts of /analyze requests
RequestTexts ==
    { <<>>, <<"\t", " ">>, wwall, JoinWords(<<wTax, wgun>>, <<" ">>) }

MaxRequests == 2
Requests == 1..MaxRequests

Unloaded == [unloaded |-> TRUE]

\* no process: the state of the variables when single calls are examined
NoProcess ==
    /\ file = [kind |-> "missing"]
    /\ proc = "none"
    /\ impl = "none"
    /\ BIAS_KEYWORDS = Unloaded
    /\ PROCESSED_KEYWORDS = Unloaded
    /\ reqs = <<>>

----------------------------------------------------------------------------
(* A call of find_phrase_matches                                           *)

InitMatcher ==
    /\ mtext \in MatcherTexts
    /\ mphrases \in MatcherPhraseLists
    /\ mout = NotCalled
    /\ stext = <<>> /\ skeywords = <<>> /\ sout = NotCalled
    /\ rscores = <<>> /\ rout = NotCalled
    /\ NoProcess

CallFindPhraseMatches ==
    /\ mout.exc = "not_called"
    /\ mout' = FindPhraseMatches(mtext, mphrases)
    /\ UNCHANGED <<mtext, mphrases, stext, skeywords, sout, rscores, rout>>
    /\ UNCHANGED procVars

NextMatcher == CallFindPhraseMatches

SpecMatcher == InitMatcher /\ [][NextMatcher]_vars

----------------------------------------------------------------------------
(* A call of calculate_bias_scores followed by determine_overall_bias      *)

\* main.py:225-228
Analysis(text, keywords) ==
    LET Resolved(c, bias) ==
            [exc |-> "none", bias_scores |-> c.scores, detected_phrases |-> c.detected,
             overall_bias |-> bias[1], confidence |-> bias[2]]
        Scored(c) ==
            IF c.exc # "none" THEN [exc |-> c.exc]
            ELSE Resolved(c, DetermineOverallBias(c.scores))
    IN  Scored(CalculateBiasScores(text, keywords))

InitScorer ==
    /\ stext \in ScorerTexts
    /\ skeywords \in ScorerKeywordSets
    /\ sout = NotCalled
    /\ mtext = <<>> /\ mphrases = <<>> /\ mout = NotCalled
    /\ rscores = <<>> /\ rout = NotCalled
    /\ NoProcess

CallAnalysis ==
    /\ sout.exc = "not_called"
    /\ sout' = Analysis(stext, skeywords)
    /\ UNCHANGED <<mtext, mphrases, mout, stext, skeywords, rscores, rout>>
    /\ UNCHANGED procVars

NextScorer == CallAnalysis

SpecScorer == InitScorer /\ [][NextScorer]_vars

----------------------------------------------------------------------------
(* A call of determine_overall_bias                                        *)

InitResolver ==
    /\ rscores \in ScoreVectors
    /\ rout = NotCalled
    /\ mtext = <<>> /\ mphrases = <<>> /\ mout = NotCalled
    /\ stext = <<>> /\ skeywords = <<>> /\ sout = NotCalled
    /\ NoProcess

CallDetermineOverallBias ==
    /\ rout.exc = "not_called"
    /\ LET Returned(bias) ==
               [exc |-> "none", overall_bias |-> bias[1], confidence |-> bias[2]]
       IN  rout' = Returned(DetermineOverallBias(rscores))
    /\ UNCHANGED <<mtext, mphrases, mout, stext, skeywords, sout, rscores>>
    /\ UNCHANGED procVars

NextResolver == CallDetermineOverallBias

SpecResolver == InitResolver /\ [][NextResolver]_vars

----------------------------------------------------------------------------
(* The two servers: main.py (FastAPI) and server.py (http.server)          *)

\* the category keys calculate_bias_scores reads, main.py:135-165
RequiredKeys == {ScoringSteps[i].top : i \in 1..Len(ScoringSteps)}

Init ==
    /\ impl \in {"main", "server"}
    /\ file \in DataFiles
    /\ proc = "starting"
    /\ BIAS_KEYWORDS = Unloaded
    /\ PROCESSED_KEYWORDS = Unloaded
    /\ reqs = [r \in Requests |-> [st |-> "idle"]]
    /\ mtext = <<>> /\ mphrases = <<>> /\ mout = NotCalled
    /\ stext = <<>> /\ skeywords = <<>> /\ sout = NotCalled
    /\ rscores = <<>> /\ rout = NotCalled

\* main.py:26-29: open() and json.load() at import; an exception ends the process
LoadKeywords ==
    /\ impl = "main"
    /\ proc = "starting"
    /\ IF file.kind = "json"
       THEN proc' = "serving" /\ BIAS_KEYWORDS' = file.value
       ELSE proc' = "failed" /\ UNCHANGED BIAS_KEYWORDS
    /\ UNCHANGED <<impl, file, PROCESSED_KEYWORDS, reqs>>
    /\ UNCHANGED callVars

\* server.py:12-30: the same load, then PROCESSED_KEYWORDS reads every key
ServerLoadKeywords ==
    /\ impl = "server"
    /\ proc = "starting"
    /\ IF file.kind = "json" /\ \A i \in 1..Len(ScoringSteps) : HasList(file.value, ScoringSteps[i])
       THEN /\ proc' = "serving"
            /\ BIAS_KEYWORDS' = file.value
            /\ \E er \in SetOrders(file.value.extreme_right.keywords),
                  el \in SetOrders(file.value.extreme_left.keywords),
                  lwe \in SetOrders(file.value.left_wing.economic),
                  lws \in SetOrders(file.value.left_wing.social),
                  rwe \in SetOrders(file.value.right_wing.economic),
                  rws \in SetOrders(file.value.right_wing.social),
                  nt \in SetOrders(file.value.neutral_terms) :
                 PROCESSED_KEYWORDS' =
                    [extreme_right |-> er, extreme_left |-> el,
                     left_wing |-> [economic |-> lwe, social |-> lws],
                     right_wing |-> [economic |-> rwe, social |-> rws],
                     neutral |-> nt]
       ELSE /\ proc' = "failed"
            /\ BIAS_KEYWORDS' = IF file.kind = "json" THEN file.value ELSE BIAS_KEYWORDS
            /\ UNCHANGED PROCESSED_KEYWORDS
    /\ UNCHANGED <<impl, file, reqs>>
    /\ UNCHANGED callVars

\* request bodies.  "json" is a JSON object whose text is a string,
\* "json_no_text" a JSON object without a text, "json_text_not_string" a JSON
\* object whose text is null or a number, "json_not_object" JSON that is not
\* an object (a list, a number, null), "invalid" UTF-8 text that is not JSON,
\* "not_utf8" bytes that are not UTF-8, "bad_length" a body announced by a
\* Content-Length that is not a number, "empty" no body (Content-Length
\* absent or 0).
TextBody(text) == [kind |-> "json", text |-> text]
OtherBodies ==
    { [kind |-> "json_no_text"], [kind |-> "empty"], [kind |-> "invalid"],
      [kind |-> "not_utf8"], [kind |-> "json_not_object"],
      [kind |-> "json_text_not_string"], [kind |-> "bad_length"] }

\* a client's request reaches the serving process.  main.py's handlers are
\* entered only for a body FastAPI has parsed into a TextInput.
Arrive(r, method, path, body) ==
    /\ proc = "serving"
    /\ reqs[r].st = "idle"
    /\ impl = "main" => \/ method = "POST" /\ path = "/analyze" /\ body.kind = "json"
                        \/ method = "GET" /\ path = "/categories"
    /\ reqs' = [reqs EXCEPT ![r] =
                  [st |-> "received", method |-> method, path |-> path, body |-> body,
                   calls |-> {}]]
    /\ UNCHANGED <<impl, file, proc, BIAS_KEYWORDS, PROCESSED_KEYWORDS>>
    /\ UNCHANGED callVars

Respond(req, calls, status, body) ==
    [st |-> "done", method |-> req.method, path |-> req.path, body |-> req.body,
     calls |-> req.calls \cup calls, status |-> status, response |-> body]

\* the test "not text.strip()" without the strip
NotStripped(text) == text

\* main.py:219 and server.py:188, the text under test
Stripped(text) == Strip(text)

\* main.py:219-221
AnalyzeValidate(r) ==
    /\ impl = "main"
    /\ reqs[r].st = "received"
    /\ reqs[r].method = "POST" /\ reqs[r].path = "/analyze"
    /\ IF Stripped(reqs[r].body.text) = <<>>
       THEN reqs' = [reqs EXCEPT ![r] =
                       Respond(@, {}, 400, [detail |-> "Text cannot be empty"])]
       ELSE reqs' = [reqs EXCEPT ![r].st = "validated"]
    /\ UNCHANGED <<impl, file, proc, BIAS_KEYWORDS, PROCESSED_KEYWORDS>>
    /\ UNCHANGED callVars

\* the functions a call of calculate_bias_scores enters
ScorerCalls(keywords) ==
    {"calculate_bias_scores"}
    \cup (IF HasList(keywords, ScoringSteps[1]) THEN {"find_phrase_matches"} ELSE {})

\* a scorer that consumes the extreme_right keywords it has matched against
AnalyzeScoreConsuming(r) ==
    /\ impl = "main"
    /\ reqs[r].st = "validated"
    /\ LET Scored(req, c, calls) ==
               IF c.exc # "none"
               THEN Respond(req, calls, 500, [detail |-> "Analysis failed", exc |-> c.exc])
               ELSE [st |-> "scored", method |-> req.method, path |-> req.path,
                     body |-> req.body, calls |-> req.calls \cup calls,
                     bias_scores |-> c.scores, detected_phrases |-> c.detected]
       IN  reqs' = [reqs EXCEPT ![r] =
                      Scored(@, CalculateBiasScores(@.body.text, BIAS_KEYWORDS),
                             ScorerCalls(BIAS_KEYWORDS))]
    /\ BIAS_KEYWORDS' = [BIAS_KEYWORDS EXCEPT !.extreme_right.keywords = <<>>]
    /\ UNCHANGED <<impl, file, proc, PROCESSED_KEYWORDS>>
    /\ UNCHANGED callVars

\* main.py:223-225 and, when the scorer raises, main.py:240-242
AnalyzeScore(r) ==
    /\ impl = "main"
    /\ reqs[r].st = "validated"
    /\ LET Scored(req, c, calls) ==
               IF c.exc # "none"
               THEN Respond(req, calls, 500, [detail |-> "Analysis failed", exc |-> c.exc])
               ELSE [st |-> "scored", method |-> req.method, path |-> req.path,
                     body |-> req.body, calls |-> req.calls \cup calls,
                     bias_scores |-> c.scores, detected_phrases |-> c.detected]
       IN  reqs' = [reqs EXCEPT ![r] =
                      Scored(@, CalculateBiasScores(@.body.text, BIAS_KEYWORDS),
                             ScorerCalls(BIAS_KEYWORDS))]
    /\ UNCHANGED <<impl, file, proc, BIAS_KEYWORDS, PROCESSED_KEYWORDS>>
    /\ UNCHANGED callVars

\* main.py:227-238
AnalyzeRespond(r) ==
    /\ impl = "main"
    /\ reqs[r].st = "scored"
    /\ LET Answered(req, bias) ==
               Respond(req, {"determine_overall_bias"}, 200,
                       [text |-> req.body.text, bias_scores |-> req.bias_scores,
                        overall_bias |-> bias[1], confidence |-> bias[2],
                        detected_phrases |-> req.detected_phrases])
       IN  reqs' = [reqs EXCEPT ![r] = Answered(@, DetermineOverallBias(@.bias_scores))]
    /\ UNCHANGED <<impl, file, proc, BIAS_KEYWORDS, PROCESSED_KEYWORDS>>
    /\ UNCHANGED callVars

\* main.py:244-249
GetCategories(r) ==
    /\ impl = "main"
    /\ reqs[r].st = "received"
    /\ reqs[r].method = "GET" /\ reqs[r].path = "/categories"
    /\ reqs' = [reqs EXCEPT ![r] =
                  Respond(@, {}, 200, [categories |-> DOMAIN BIAS_KEYWORDS])]
    /\ UNCHANGED <<impl, file, proc, BIAS_KEYWORDS, PROCESSED_KEYWORDS>>
    /\ UNCHANGED callVars

\* server.py:180-188, the exception that reading the request raises:
\* int() of the Content-Length (180), decode('utf-8') and json.loads (186),
\* request_data.get and .strip() (188)
RaisedByBody(body) ==
    CASE body.kind = "bad_length"           -> "ValueError"
      [] body.kind = "not_utf8"             -> "UnicodeDecodeError"
      [] body.kind = "invalid"              -> "JSONDecodeError"
      [] body.kind = "json_not_object"      -> "AttributeError"
      [] body.kind = "json_text_not_string" -> "AttributeError"
      [] OTHER                              -> "none"

\* server.py:176-214
DoPOST(r) ==
    /\ impl = "server"
    /\ reqs[r].st = "received"
    /\ reqs[r].method = "POST"
    /\ LET Answered(req, text, c, bias) ==
               Respond(req,
                       {"calculate_bias_scores", "find_phrase_matches",
                        "determine_overall_bias"},
                       200,
                       [text |-> text, bias_scores |-> c.scores,
                        overall_bias |-> bias[1], confidence |-> bias[2],
                        detected_phrases |-> c.detected])
           Scored(req, text, c) ==
               Answered(req, text, c, ServerDetermineOverallBias(c.scores))
           Read(req, text, raised) ==
               IF req.path # "/analyze" THEN Respond(req, {}, 404, [message |-> "Not Found"])
               ELSE IF req.body.kind = "empty"
                    THEN Respond(req, {}, 400, [message |-> "Empty request body"])
               ELSE IF raised = "JSONDecodeError"
                    THEN Respond(req, {}, 400, [message |-> "Invalid JSON"])
               ELSE IF raised # "none"
                    THEN Respond(req, {}, 500, [message |-> "Internal Server Error"])
               ELSE IF Stripped(text) = <<>>
                    THEN Respond(req, {}, 400, [message |-> "Text cannot be empty"])
               ELSE Scored(req, text, ServerCalculateBiasScores(text, PROCESSED_KEYWORDS))
           Handled(req) ==
               Read(req, IF req.body.kind = "json" THEN req.body.text ELSE <<>>,
                    RaisedByBody(req.body))
       IN  reqs' = [reqs EXCEPT ![r] = Handled(@)]
    /\ UNCHANGED <<impl, file, proc, BIAS_KEYWORDS, PROCESSED_KEYWORDS>>
    /\ UNCHANGED callVars

\* server.py:164-174
DoGET(r) ==
    /\ impl = "server"
    /\ reqs[r].st = "received"
    /\ reqs[r].method = "GET"
    /\ reqs' = [reqs EXCEPT ![r] =
                  IF @.path = "/"
                  THEN Respond(@, {}, 200, [status |-> "ok"])
                  ELSE Respond(@, {}, 404, [message |-> "Not Found"])]
    /\ UNCHANGED <<impl, file, proc, BIAS_KEYWORDS, PROCESSED_KEYWORDS>>
    /\ UNCHANGED callVars

\* the client has read the response; the slot serves the next request
Close(r) ==
    /\ reqs[r].st = "done"
    /\ reqs' = [reqs EXCEPT ![r] = [st |-> "idle"]]
    /\ UNCHANGED <<impl, file, proc, BIAS_KEYWORDS, PROCESSED_KEYWORDS>>
    /\ UNCHANGED callVars

Next ==
    \/ LoadKeywords
    \/ ServerLoadKeywords
    \/ \E r \in Requests, text \in RequestTexts : Arrive(r, "POST", "/analyze", TextBody(text))
    \/ \E r \in Requests, body \in OtherBodies : Arrive(r, "POST", "/analyze", body)
    \/ \E r \in Requests, path \in {"/", "/categories"} : Arrive(r, "GET", path, [kind |-> "empty"])
    \/ \E r \in Requests : Arrive(r, "POST", "/", [kind |-> "empty"])
    \/ \E r \in Requests : AnalyzeValidate(r)
    \/ \E r \in Requests : AnalyzeScore(r)
    \/ \E r \in Requests : AnalyzeRespond(r)
    \/ \E r \in Requests : GetCategories(r)
    \/ \E r \in Requests : DoPOST(r)
    \/ \E r \in Requests : DoGET(r)
    \/ \E r \in Requests : Close(r)

Spec == Init /\ [][Next]_vars

----------------------------------------------------------------------------
(* Properties of calculate_bias_scores                                     *)

FOne == FromInt(1)

\* the lowest exponent of the scores
LowestExponent(scores) ==
    CHOOSE e \in {scores[c].e : c \in DOMAIN scores} :
        \A c \in DOMAIN scores : e <= scores[c].e

RECURSIVE ExactSumFrom(_, _, _)
ExactSumFrom(scores, i, e) ==
    IF i > Len(Categories) THEN <<>>
    ELSE BAdd(BShl(scores[Categories[i]].m, scores[Categories[i]].e - e),
              ExactSumFrom(scores, i + 1, e))

\* the sum of the five scores without any rounding, in units of 2^e
ExactSum(scores) ==
    [n |-> ExactSumFrom(scores, 1, LowestExponent(scores)), e |-> LowestExponent(scores)]

\* sums are compared with 1 to within 2^-50
ToleranceScale == BShl(<<1>>, 50)

\* the exact sum is within 2^-50 of 1
SumIsNearOne(scores) ==
    LET sum == ExactSum(scores)
        one == BShl(<<1>>, 0 - sum.e)
        gap == IF BCmp(sum.n, one) >= 0 THEN BSub(sum.n, one) ELSE BSub(one, sum.n)
    IN  sum.e <= 0 /\ BCmp(BMul(gap, ToleranceScale), one) <= 0

\* sum(scores.values()) of the code is within 2^-50 of 1
PythonSumIsNearOne(scores) ==
    LET total == SumScores(scores)
        bits  == BBitLen(ToleranceScale) - 1
        low   == FRound(BSub(ToleranceScale, <<1>>), 0 - bits)
        high  == FRound(BAdd(ToleranceScale, <<1>>), 0 - bits)
    IN  FGe(total, low) /\ FGe(high, total)

SomePhraseDetected(out) == DOMAIN out.detected_phrases # {}

\* C1 as stated: a returned score vector has five non-negative values; their
\* sum, as sum() of the code computes it, is 0 when no phrase matched and 1
\* when some phrase matched
C1_SumZeroOrOne ==
    sout.exc = "none" =>
        /\ DOMAIN sout.bias_scores = Range(Categories)
        /\ Cardinality(DOMAIN sout.bias_scores) = 5
        /\ \A c \in DOMAIN sout.bias_scores : FGe(sout.bias_scores[c], FZero)
        /\ IF SomePhraseDetected(sout)
           THEN SumScores(sout.bias_scores) = FOne
           ELSE \A c \in DOMAIN sout.bias_scores : sout.bias_scores[c] = FZero

\* C1 as amended: a returned score vector has five non-negative values; when
\* no phrase matched they are all 0, and when some phrase matched their sum
\* is within floating-point tolerance (2^-50) of 1, taken exactly or as the
\* code's own sum().
C1_SumZeroOrNearOne ==
    sout.exc = "none" =>
        /\ DOMAIN sout.bias_scores = Range(Categories)
        /\ Cardinality(DOMAIN sout.bias_scores) = 5
        /\ \A c \in DOMAIN sout.bias_scores : FGe(sout.bias_scores[c], FZero)
        /\ IF SomePhraseDetected(sout)
           THEN SumIsNearOne(sout.bias_scores) /\ PythonSumIsNearOne(sout.bias_scores)
           ELSE \A c \in DOMAIN sout.bias_scores : sout.bias_scores[c] = FZero

\* a returned vector whose scores the code adds up to less than 1
C1_Witness ==
    /\ sout.exc = "none"
    /\ Cardinality({c \in DOMAIN sout.bias_scores : FGt(sout.bias_scores[c], FZero)}) >= 2
    /\ FGt(FOne, SumScores(sout.bias_scores))
    /\ SumIsNearOne(sout.bias_scores)

\* the phrases of a keyword list that the matcher judges present in the text
PhrasesMatched(text, keywords, step) ==
    IF ~HasList(keywords, step) THEN {}
    ELSE {i \in 1..Len(KeywordList(keywords, step)) :
            PhraseVerdict(Lower(text), Split(Lower(text)),
                          Lower(KeywordList(keywords, step)[i])) \in {"exact", "partial"}}

RECURSIVE MatchCount(_, _, _, _)
\* the number of matched phrases of a top-level category
MatchCount(text, keywords, cat, i) ==
    IF i > Len(ScoringSteps) THEN 0
    ELSE (IF ScoringSteps[i].cat = cat
          THEN Cardinality(PhrasesMatched(text, keywords, ScoringSteps[i])) ELSE 0)
         + MatchCount(text, keywords, cat, i + 1)

OnlyCategoryMatched(text, keywords, c) ==
    /\ MatchCount(text, keywords, c, 1) >= 1
    /\ \A o \in Range(Categories) \ {c} : MatchCount(text, keywords, o, 1) = 0

IsSingleCategoryResult(out, c) ==
    /\ out.exc = "none"
    /\ out.bias_scores[c] = FOne
    /\ \A o \in Range(Categories) \ {c} : out.bias_scores[o] = FZero
    /\ out.overall_bias = c
    /\ out.confidence = FOne

\* C4: when the matched phrases all belong to one category c, the analysis
\* yields score 1 for c, 0 for the others, label c and confidence 1.
C4_SingleCategory ==
    sout.exc # "not_called" =>
        \A c \in Range(Categories) :
            OnlyCategoryMatched(stext, skeywords, c) => IsSingleCategoryResult(sout, c)

\* what remains of C4 on the calls that return
SingleCategoryWhenReturned ==
    sout.exc = "none" =>
        \A c \in Range(Categories) :
            OnlyCategoryMatched(stext, skeywords, c) => IsSingleCategoryResult(sout, c)

\* len(matches) of one keyword list of a call that returned
ListMatches(text, keywords, top, sub) ==
    Len(FindPhraseMatches(text, IF sub = "" THEN keywords[top] ELSE keywords[top][sub]).matches)

\* C5: raw scores are 2.0 per extreme match, 1.0 per wing match (economic and
\* social together) and 0.75 per neutral match; a normalized score is the raw
\* score divided by the sum of the five raw scores.  The raw scores are
\* counted here in quarters: 8 per extreme, 4 per wing and 3 per neutral match.
C5_Weights ==
    sout.exc = "none" =>
        LET n(top, sub) == ListMatches(stext, skeywords, top, sub)
            raw == [c \in Range(Categories) |->
                      CASE c = "extreme_right" -> 8 * n("extreme_right", "keywords")
                        [] c = "extreme_left"  -> 8 * n("extreme_left", "keywords")
                        [] c = "left_wing"     -> 4 * (n("left_wing", "economic") + n("left_wing", "social"))
                        [] c = "right_wing"    -> 4 * (n("right_wing", "economic") + n("right_wing", "social"))
                        [] c = "neutral"       -> 3 * n("neutral_terms", "")]
            total == raw["extreme_right"] + raw["extreme_left"] + raw["left_wing"]
                     + raw["right_wing"] + raw["neutral"]
        IN  \A c \in Range(Categories) :
                sout.bias_scores[c] = IF total = 0 THEN FZero ELSE FLiteral(raw[c], total)

C5_Witness ==
    /\ sout.exc = "none"
    /\ sout.bias_scores["right_wing"] = FLiteral(8, 11)
    /\ sout.bias_scores["neutral"] = FLiteral(3, 11)

----------------------------------------------------------------------------
(* Properties of find_phrase_matches                                       *)

\* the 60% rule on a phrase's words; a phrase without words has no ratio
RatioAtLeast60(phrase, text) ==
    /\ Split(phrase) # <<>>
    /\ 10 * MatchedWords(Split(phrase), Split(Lower(text))) >= 6 * Len(Split(phrase))

\* C6: a candidate phrase that is not a substring of the lowercased text is
\* returned if and only if matched words / words >= 0.6.
C6_RatioRule ==
    mout.exc # "not_called" =>
        \A i \in 1..Len(mphrases) :
            ~Contains(Lower(mphrases[i]), Lower(mtext)) =>
                ((mout.exc = "none" /\ Lower(mphrases[i]) \in Range(mout.matches))
                    <=> RatioAtLeast60(Lower(mphrases[i]), mtext))

\* what remains of C6 on the calls that return
RatioRuleWhenReturned ==
    mout.exc = "none" =>
        \A i \in 1..Len(mphrases) :
            ~Contains(Lower(mphrases[i]), Lower(mtext)) =>
                (Lower(mphrases[i]) \in Range(mout.matches)
                    <=> RatioAtLeast60(Lower(mphrases[i]), mtext))

\* a three-word phrase with two words matched is returned, with one it is not
ThreeWordExamples ==
    mout.exc = "none" =>
        \A i \in 1..Len(mphrases) :
            LET words == Split(Lower(mphrases[i]))
                k == MatchedWords(words, Split(Lower(mtext)))
            IN  (~Contains(Lower(mphrases[i]), Lower(mtext)) /\ Len(words) = 3) =>
                    /\ k = 2 => Lower(mphrases[i]) \in Range(mout.matches)
                    /\ k = 1 => Lower(mphrases[i]) \notin Range(mout.matches)

\* the tokens of the text of the call
TextTokens == Range(Split(Lower(mtext)))

\* the candidates of the call that reach the fallback path, lowercased
FallbackPhrases ==
    {Lower(mphrases[i]) : i \in {j \in 1..Len(mphrases) :
                                    ~Contains(Lower(mphrases[j]), Lower(mtext))}}

\* w without its trailing suffix, w itself when it does not end with it
StripSuffix(w, suffix) ==
    IF /\ Len(w) >= Len(suffix)
       /\ SubSeq(w, Len(w) - Len(suffix) + 1, Len(w)) = suffix
    THEN SubSeq(w, 1, Len(w) - Len(suffix))
    ELSE w

\* the six variants of a word: trailing s / ed / ing stripped or appended
SixVariants(w) ==
    { StripSuffix(w, <<"s">>), StripSuffix(w, <<"e", "d">>),
      StripSuffix(w, <<"i", "n", "g">>),
      w \o <<"s">>, w \o <<"e", "d">>, w \o <<"i", "n", "g">> }

\* conditions (i), (ii) and (iii) on a phrase word
IsTextToken(w) == w \in TextTokens
ContainsEitherWay(w) == \E t \in TextTokens : Contains(w, t) \/ Contains(t, w)
VariantIsToken(w) == \E v \in SixVariants(w) : v \in TextTokens
OneOfThree(w) == IsTextToken(w) \/ ContainsEitherWay(w) \/ VariantIsToken(w)

\* the phrase word contains a piece of at least 3 characters of a text token
SharesSubstring(w) ==
    \E t \in TextTokens : \E i \in 1..Len(t) : \E j \in (i + 2)..Len(t) :
        Contains(SubSeq(t, i, j), w)

\* the candidates of one word on the fallback path
OneWordFallback == {p \in FallbackPhrases : Len(Split(p)) = 1}

\* a phrase word is counted if and only if one of (i), (ii), (iii) holds,
\* in the count and in what the call returns for a candidate of one word
C11_CountedIffOneOfThree ==
    mout.exc # "not_called" =>
        /\ \A p \in FallbackPhrases : \A w \in Range(Split(p)) :
              WordCounted(w, Split(Lower(mtext))) <=> OneOfThree(w)
        /\ mout.exc = "none" =>
              \A p \in OneWordFallback :
                  p \in Range(mout.matches) <=> OneOfThree(Split(p)[1])

\* C11 as amended: in the fallback path a phrase word is counted if and only
\* if (i) it is a text token, or (ii) a text token contains it or it contains
\* a text token, or (iii) one of its six variants is a text token, or (iv) it
\* contains a substring of at least 3 characters of a text token; a candidate
\* of one word is returned exactly when its word is counted.
C11_CountedIffOneOfFour ==
    mout.exc # "not_called" =>
        /\ \A p \in FallbackPhrases : \A w \in Range(Split(p)) :
              WordCounted(w, Split(Lower(mtext))) <=> (OneOfThree(w) \/ SharesSubstring(w))
        /\ mout.exc = "none" =>
              \A p \in OneWordFallback :
                  p \in Range(mout.matches) <=>
                      (OneOfThree(Split(p)[1]) \/ SharesSubstring(Split(p)[1]))

\* "syntax" against the text "taxes": returned through the shared "tax" alone
C11_Witness ==
    /\ mout.exc = "none"
    /\ \E p \in OneWordFallback :
          /\ SharesSubstring(Split(p)[1])
          /\ ~OneOfThree(Split(p)[1])
          /\ p \in Range(mout.matches)

\* the candidates of the call that have no word
ZeroWordCandidates ==
    {Lower(mphrases[i]) : i \in {j \in 1..Len(mphrases) : Split(Lower(mphrases[j])) = <<>>}}

\* C12: whatever the text, the call completes without a division by zero
\* and its result holds no candidate that has zero words.
C12_ZeroWordPhraseNeverMatches ==
    (mout.exc # "not_called" /\ ZeroWordCandidates # {}) =>
        /\ mout.exc = "none"
        /\ \A p \in ZeroWordCandidates : p \notin Range(mout.matches)

\* what the code does with a candidate that has no word: it is returned when
\* it is a substring of the lowercased text, and the call fails otherwise
ZeroWordPhraseOutcome ==
    (mout.exc # "not_called" /\ ZeroWordCandidates # {}) =>
        IF \A p \in ZeroWordCandidates : Contains(p, Lower(mtext))
        THEN /\ mout.exc = "none"
             /\ \A p \in ZeroWordCandidates : p \in Range(mout.matches)
        ELSE mout.exc = "ZeroDivisionError"

\* find_phrase_matches with main.py:96-110 removed: a phrase word is counted
\* by the exact-token and the containment checks of main.py:72-94 only
WordCountedBeforeVariations(phrase_word, text_words) ==
    \/ WordExact(phrase_word, text_words)
    \/ WordContained(phrase_word, text_words)

MatchedWordsBeforeVariations(phrase_words, text_words) ==
    Cardinality({i \in 1..Len(phrase_words) :
                    WordCountedBeforeVariations(phrase_words[i], text_words)})

PhraseVerdictWithoutVariations(ltext, text_words, phrase) ==
    IF Contains(phrase, ltext) THEN "exact"
    ELSE IF Split(phrase) = <<>> THEN "ZeroDivisionError"
    ELSE IF MatchedWordsBeforeVariations(Split(phrase), text_words) * MatchThreshold[2]
                >= MatchThreshold[1] * Len(Split(phrase))
         THEN "partial"
    ELSE "no"

RECURSIVE MatchLoopWithoutVariations(_, _, _, _, _)
MatchLoopWithoutVariations(ltext, text_words, phrases, i, matches) ==
    IF i > Len(phrases) THEN [exc |-> "none", matches |-> matches]
    ELSE LET phrase == Lower(phrases[i])
             v == PhraseVerdictWithoutVariations(ltext, text_words, phrase)
         IN  IF v = "ZeroDivisionError" THEN [exc |-> "ZeroDivisionError"]
             ELSE MatchLoopWithoutVariations(ltext, text_words, phrases, i + 1,
                            IF v \in {"exact", "partial"}
                            THEN Append(matches, phrase) ELSE matches)

FindPhraseMatchesWithoutVariations(text, phrases) ==
    MatchLoopWithoutVariations(Lower(text), Split(Lower(text)), phrases, 1, <<>>)

\* C13: the variation step counts no phrase word that the exact-token and
\* containment checks did not count, and the matcher without the step has
\* the same outcome as the matcher with it, for every text and candidate list.
C13_VariationStepRedundant ==
    mout.exc # "not_called" =>
        /\ \A p \in FallbackPhrases : \A w \in Range(Split(p)) :
              WordVaried(w, Split(Lower(mtext))) =>
                  WordCountedBeforeVariations(w, Split(Lower(mtext)))
        /\ mout = FindPhraseMatchesWithoutVariations(mtext, mphrases)

\* a returned call in which one word of a fallback candidate reached the
\* variation step and a word of it has a variation among the text's tokens
C13_Witness ==
    /\ mout.exc = "none"
    /\ \E p \in FallbackPhrases :
          /\ \E w \in Range(Split(p)) :
                ~WordCountedBeforeVariations(w, Split(Lower(mtext)))
          /\ \E w \in Range(Split(p)) :
                \E v \in Range(WordVariations(w)) : v # w /\ v \in TextTokens

----------------------------------------------------------------------------
(* Properties of determine_overall_bias                                    *)

Larger(a, b) == IF FGt(a, b) THEN a ELSE b
Smaller(a, b) == IF FGt(a, b) THEN b ELSE a

\* no extreme score, both wings nonzero and within 15% of each other:
\* larger <= 1.15 x smaller, without rounding
NearEqualWings(scores) ==
    /\ scores["extreme_left"] = FZero
    /\ scores["extreme_right"] = FZero
    /\ scores["left_wing"] # FZero
    /\ scores["right_wing"] # FZero
    /\ FCmpScaled(23, Smaller(scores["left_wing"], scores["right_wing"]),
                  20, Larger(scores["left_wing"], scores["right_wing"])) >= 0

\* C2 as stated: near-equal wings without extremes give "mixed" for every
\* value of the neutral score.
C2_MixedForAnyNeutral ==
    (rout.exc = "none" /\ NearEqualWings(rscores)) => rout.overall_bias = "mixed"

\* C2 as amended: near-equal wings without extremes give "mixed" whenever the
\* larger wing score reaches the float product of the highest score and 0.85,
\* as it does for every neutral score with 0.85 x neutral <= larger wing score;
\* when the larger wing score is below that product the label is "neutral".
C2_MixedUnlessNeutralDominates ==
    (rout.exc = "none" /\ NearEqualWings(rscores)) =>
        LET larger == Larger(rscores["left_wing"], rscores["right_wing"])
            highest == Larger(larger, rscores["neutral"])
        IN  /\ FCmpScaled(20, larger, 17, rscores["neutral"]) >= 0 =>
                  rout.overall_bias = "mixed"
            /\ IF FGe(larger, FMul(highest, FLiteral(17, 20)))
               THEN rout.overall_bias = "mixed"
               ELSE rout.overall_bias = "neutral"

C2_Witness ==
    /\ rout.exc = "none"
    /\ NearEqualWings(rscores)
    /\ rscores["left_wing"] # rscores["right_wing"]
    /\ FGt(rscores["neutral"], Larger(rscores["left_wing"], rscores["right_wing"]))
    /\ rout.overall_bias = "mixed"

\* an extreme category whose score is at least 0.85 x the maximum, without rounding
ExtremeDominant(scores, c) ==
    /\ c \in Range(ExtremeCategories)
    /\ FCmpScaled(20, scores[c], 17, MaxScore(scores)) >= 0

\* C3: with a nonzero maximum and an extreme score >= 0.85 x maximum, the
\* label is the dominant extreme category with the higher score and the
\* confidence is that category's own score.
C3_ExtremePrecedence ==
    (/\ rout.exc = "none"
     /\ MaxScore(rscores) # FZero
     /\ \E c \in Range(ExtremeCategories) : ExtremeDominant(rscores, c)) =>
        /\ ExtremeDominant(rscores, rout.overall_bias)
        /\ \A c \in Range(ExtremeCategories) :
              ExtremeDominant(rscores, c) => FGe(rscores[rout.overall_bias], rscores[c])
        /\ rout.confidence = rscores[rout.overall_bias]

C3_Witness ==
    /\ rout.exc = "none"
    /\ rout.overall_bias = "extreme_right"
    /\ FGt(rscores["left_wing"], rscores["extreme_right"])
    /\ FGt(rscores["neutral"], rscores["extreme_right"])
    /\ rscores["extreme_left"] # FZero
    /\ rout.confidence = rscores["extreme_right"]

\* C7: an all-zero score vector gives ("neutral", 0.0).
C7_AllZeroNeutral ==
    (rout.exc = "none" /\ \A c \in Range(Categories) : rscores[c] = FZero) =>
        (rout.overall_bias = "neutral" /\ rout.confidence = FZero)

C7_Witness ==
    /\ rout.exc = "none"
    /\ \A c \in Range(Categories) : rscores[c] = FZero
    /\ rout.overall_bias = "neutral"

----------------------------------------------------------------------------
(* Properties of the servers                                               *)

IsAnalyze(req) ==
    req.st # "idle" /\ req.method = "POST" /\ req.path = "/analyze" /\ req.body.kind = "json"

\* answered /analyze requests with the same text carry the same response
SameTextSameResponse ==
    \A r1, r2 \in Requests :
        (/\ IsAnalyze(reqs[r1]) /\ reqs[r1].st = "done"
         /\ IsAnalyze(reqs[r2]) /\ reqs[r2].st = "done"
         /\ reqs[r1].body.text = reqs[r2].body.text) =>
            /\ reqs[r1].status = reqs[r2].status
            /\ reqs[r1].response = reqs[r2].response

\* no step of a serving process writes the keyword store
StoreReadOnly ==
    proc = "serving" =>
        /\ BIAS_KEYWORDS' = BIAS_KEYWORDS
        /\ PROCESSED_KEYWORDS' = PROCESSED_KEYWORDS

\* C8: under any interleaving of requests, requests with identical text get
\* identical scores, label, confidence and detected phrases, and no request
\* modifies the keyword store.
C8_RequestsIndependent == []SameTextSameResponse /\ [][StoreReadOnly]_vars

C8_Witness ==
    /\ impl = "main"
    /\ reqs[1].st = "done" /\ reqs[2].st = "done"
    /\ IsAnalyze(reqs[1]) /\ IsAnalyze(reqs[2])
    /\ reqs[1].body.text = reqs[2].body.text
    /\ reqs[1].status = 200
    /\ reqs[1].response.overall_bias = "extreme_right"
    /\ reqs[2].response = reqs[1].response

BadDataset ==
    \/ file.kind # "json"
    \/ file.kind = "json" /\ ~(RequiredKeys \subseteq DOMAIN file.value)

\* C9: with a data file that is missing, not valid JSON or without a required
\* category key, loading fails at process start, so that the process never
\* answers a request.
C9_BadDatasetNeverServes ==
    BadDataset => \A r \in Requests : reqs[r].st # "done"

\* what holds of C9: a missing or unparsable file is never served by either
\* server, and server.py serves no file that lacks a category key
UnreadableNeverServes ==
    (file.kind # "json" \/ (impl = "server" /\ BadDataset)) =>
        (proc # "serving" /\ \A r \in Requests : reqs[r].st = "idle")

IsBlank(text) == \A i \in 1..Len(text) : text[i] \in WS

\* C10: an /analyze request whose text is empty or only whitespace is
\* answered 400, and at no point are the scorer or the matcher called for it.
C10_BlankTextRejected ==
    \A r \in Requests :
        (IsAnalyze(reqs[r]) /\ IsBlank(reqs[r].body.text)) =>
            /\ reqs[r].calls = {}
            /\ reqs[r].st \in {"received", "done"}
            /\ reqs[r].st = "done" => reqs[r].status = 400

C10_Witness ==
    /\ impl = "main"
    /\ IsAnalyze(reqs[1]) /\ reqs[1].body.text = <<"\t", " ">>
    /\ reqs[1].st = "done" /\ reqs[1].status = 400
    /\ IsAnalyze(reqs[2]) /\ reqs[2].st = "done" /\ reqs[2].status = 200

====
